---- MODULE Spec2Model ----
(***************************************************************************)
(* rigify/leg_quadruped_generic.py: the metarig template, the validation   *)
(* of the leg chain (metarig_definition) and the IK rig builder (ik, main) *)
(* over an armature of named bones with a parent relation.                 *)
(*                                                                         *)
(* A bone name is a sequence of string tokens, so that formatting a name   *)
(* ("MCH-%s", name + "_ik", the host's ".001" numbering) is computed and   *)
(* not assumed. A bone is identified by its index in the armature; parent  *)
(* 0 is Python's None.                                                     *)
(***************************************************************************)
EXTENDS Integers, Sequences, FiniteSets, TLC

VARIABLES
    bones,            \* obj.data.bones / obj.pose.bones (object-mode data)
    edit_bones,       \* obj.data.edit_bones (empty outside EDIT mode)
    mode,             \* obj.mode
    pc,               \* position of the running script
    source,           \* who authored the metarig: "template" or "user"
    pbone_type,       \* name of the pose bone carrying pbone['type']
    raised,           \* exception raised by metarig_definition, or "none"
    bone_definition,  \* list returned by metarig_definition
    base_names,       \* main's base_names argument
    mt, mt_chain, ik_chain, ik,   \* the four bone_class_instance objects
    constraints,      \* constraints created on pose bones, in order
    bones_ik,         \* value returned by main
    trace,            \* host API calls made since ik was entered
    entry             \* facts recorded while ik runs: the mode and the number
                      \* of bones on entry, the IK foot's name before its
                      \* rename and the names taken at that moment

vars == <<bones, edit_bones, mode, pc, source, pbone_type, raised,
          bone_definition, base_names, mt, mt_chain, ik_chain, ik,
          constraints, bones_ik, trace, entry>>

----------------------------------------------------------------------------
(* Bounds and program constants *)

MaxBones == 6

METARIG_NAMES == <<"hips", "thigh", "shin", "foot", "toe">>

None == <<>>

\* Names of the bones of a user-authored metarig, by index.
UserNames ==
    << <<"hips">>, <<"thigh">>, <<"shin">>, <<"foot">>, <<"toe">>,
       <<"leg", "_ik">>, <<"heel">>, <<"tail">>, <<"ear">>, <<"jaw">> >>

\* The host's numeric suffixes for making a bone name unique.
NumTok == <<".001", ".002", ".003", ".004", ".005", ".006", ".007", ".008">>

----------------------------------------------------------------------------
(* Host armature API *)

Ids(bs) == 1..Len(bs)

Names(bs) == {bs[i].name : i \in Ids(bs)}

\* collection[name]; 0 when no bone has the name (collection.get -> None)
Lookup(bs, name) ==
    IF \E i \in Ids(bs) : bs[i].name = name
    THEN CHOOSE i \in Ids(bs) : bs[i].name = name
    ELSE 0

\* bone.children
Children(bs, b) == {c \in Ids(bs) : bs[c].parent = b}

IsNum(t) == \E k \in 1..Len(NumTok) : NumTok[k] = t

StripNum(name) ==
    IF Len(name) > 0 /\ IsNum(name[Len(name)])
    THEN SubSeq(name, 1, Len(name) - 1)
    ELSE name

\* The name the host gives when `name` is asked for and `used` are taken.
UniqueName(name, used) ==
    IF name \notin used THEN name
    ELSE LET stem == StripNum(name)
             k == CHOOSE k \in 1..Len(NumTok) :
                     /\ Append(stem, NumTok[k]) \notin used
                     /\ \A j \in 1..(k - 1) : Append(stem, NumTok[j]) \in used
         IN  Append(stem, NumTok[k])

\* arm.edit_bones.new(name)
EditBonesNew(bs, name) ==
    Append(bs, [name |-> UniqueName(name, Names(bs)), parent |-> 0,
                connected |-> FALSE])

\* ebone.name = name
SetName(bs, b, name) ==
    [bs EXCEPT ![b].name =
        UniqueName(name, {bs[j].name : j \in Ids(bs) \ {b}})]

\* The three stores after bpy.ops.object.mode_set(mode=m).
ModeSetBones(m) == IF mode = "EDIT" /\ m # "EDIT" THEN edit_bones ELSE bones

ModeSetEditBones(m) ==
    IF m = "EDIT" THEN (IF mode = "EDIT" THEN edit_bones ELSE bones)
    ELSE <<>>

----------------------------------------------------------------------------
(* metarig_template *)

TemplateBones ==
    << [name |-> <<"body">>,  parent |-> None,        connected |-> FALSE],
       [name |-> <<"thigh">>, parent |-> <<"body">>,  connected |-> FALSE],
       [name |-> <<"shin">>,  parent |-> <<"thigh">>, connected |-> TRUE],
       [name |-> <<"foot">>,  parent |-> <<"shin">>,  connected |-> TRUE],
       [name |-> <<"toe">>,   parent |-> <<"foot">>,  connected |-> TRUE] >>

TemplateType == <<"thigh">>

\* Mutant: the template never assigns bone.parent.
TemplateAddBoneUnparented(bs, t) ==
    LET made == EditBonesNew(bs, t.name)
    IN  [made EXCEPT ![Len(made)].connected = t.connected]

\* One "bone = arm.edit_bones.new(..); ...; bone.parent = arm.edit_bones[..]"
TemplateAddBone(bs, t) ==
    LET made == EditBonesNew(bs, t.name)
        b == Len(made)
    IN  [made EXCEPT ![b].connected = t.connected,
                     ![b].parent = IF t.parent = None THEN 0
                                   ELSE Lookup(made, t.parent)]

----------------------------------------------------------------------------
(* metarig_definition *)

Raise == [raised |-> "RigifyError", value |-> None]

RECURSIVE chain_loop_forks(_, _, _, _)
\* Mutant: the loop only rejects a bone without children and takes
\* children[0] of a fork.
chain_loop_forks(bs, bone, chain, definition) ==
    IF chain < 3
    THEN LET children == Children(bs, bone) IN
         IF Cardinality(children) < 1 THEN Raise
         ELSE LET child == CHOOSE c \in children :
                              \A d \in children : c <= d
              IN  chain_loop_forks(bs, child, chain + 1,
                                   Append(definition, bs[child].name))
    ELSE IF Len(definition) # Len(METARIG_NAMES) THEN Raise
         ELSE [raised |-> "none", value |-> definition]

RECURSIVE chain_loop_stale(_, _, _, _)
\* Mutant: the loop appends the name of the bone it is at, not of the child.
chain_loop_stale(bs, bone, chain, definition) ==
    IF chain < 3
    THEN LET children == Children(bs, bone) IN
         IF Cardinality(children) # 1 THEN Raise
         ELSE LET child == CHOOSE c \in children : TRUE
              IN  chain_loop_stale(bs, child, chain + 1,
                                   Append(definition, bs[bone].name))
    ELSE IF Len(definition) # Len(METARIG_NAMES) THEN Raise
         ELSE [raised |-> "none", value |-> definition]

RECURSIVE chain_loop(_, _, _, _)
chain_loop(bs, bone, chain, definition) ==
    IF chain < 3
    THEN LET children == Children(bs, bone) IN
         IF Cardinality(children) # 1 THEN Raise
         ELSE LET child == CHOOSE c \in children : TRUE
              IN  chain_loop(bs, child, chain + 1,
                             Append(definition, bs[child].name))
    ELSE IF Len(definition) # Len(METARIG_NAMES) THEN Raise
         ELSE [raised |-> "none", value |-> definition]

\* Mutant: the parent check is missing; a parentless bone contributes the
\* name None.
metarig_definition_unchecked(bs, orig_bone_name) ==
    LET orig_bone == Lookup(bs, orig_bone_name)
        orig_bone_parent == bs[orig_bone].parent
    IN  chain_loop(bs, orig_bone, 0,
                   <<IF orig_bone_parent = 0 THEN None
                     ELSE bs[orig_bone_parent].name,
                     bs[orig_bone].name>>)

metarig_definition(bs, orig_bone_name) ==
    LET orig_bone == Lookup(bs, orig_bone_name)
        orig_bone_parent == bs[orig_bone].parent
    IN  IF orig_bone_parent = 0 THEN Raise
        ELSE chain_loop(bs, orig_bone, 0,
                        <<bs[orig_bone_parent].name, bs[orig_bone].name>>)

----------------------------------------------------------------------------
(* rigify_utils: bone_class_instance and the bone-copy helpers *)

ChainAttrs == <<"thigh", "shin", "foot", "toe">>

IkAttrs == <<"foot", "foot_roll", "foot_roll_01", "foot_roll_02",
             "knee_target", "foot_target">>

Range(s) == {s[i] : i \in 1..Len(s)}

\* list.index(x), 0 when x is not in the list
Index(s, x) ==
    IF \E i \in 1..Len(s) : s[i] = x
    THEN CHOOSE i \in 1..Len(s) : s[i] = x /\ \A j \in 1..(i - 1) : s[j] # x
    ELSE 0

\* bone_class_instance(obj, attrs): name, edit bone and pose bone per slot
NewInstance(attrs) ==
    [n |-> [a \in Range(attrs) |-> None],
     e |-> [a \in Range(attrs) |-> 0],
     p |-> [a \in Range(attrs) |-> 0]]

\* instance.update(): re-fetch the bones of every named slot by name
Update(inst, ebs, pbs) ==
    [n |-> inst.n,
     e |-> [a \in DOMAIN inst.n |->
              IF inst.n[a] = None THEN inst.e[a] ELSE Lookup(ebs, inst.n[a])],
     p |-> [a \in DOMAIN inst.n |->
              IF inst.n[a] = None THEN inst.p[a] ELSE Lookup(pbs, inst.n[a])]]

\* instance.attr_initialize(attr_names, bone_names)
AttrInitialize(inst, attr_names, bone_names, ebs, pbs) ==
    Update([inst EXCEPT !.n = [a \in DOMAIN inst.n |->
                                 bone_names[Index(attr_names, a)]]],
           ebs, pbs)

\* copy_bone_simple(arm, from_bone, name, parent)
CopyBoneSimple(bs, from_bone, name, parent) ==
    LET ebone == bs[Lookup(bs, from_bone)]
        made == EditBonesNew(bs, name)
    IN  IF parent
        THEN [made EXCEPT ![Len(made)].connected = ebone.connected,
                          ![Len(made)].parent = ebone.parent]
        ELSE made

RECURSIVE CopyEach(_, _, _, _)
CopyEach(bs, from_bones, to_bones, i) ==
    IF i > Len(from_bones) THEN bs
    ELSE CopyEach(CopyBoneSimple(bs, from_bones[i], to_bones[i], TRUE),
                  from_bones, to_bones, i + 1)

\* copy_bone_simple_list(arm, from_bones, to_bones, True): the copies are
\* the bones after the first `Len(bs)`; a copy whose source's parent was
\* copied too is parented to that copy, any other copy becomes a root.
CopyBoneSimpleList(bs, from_bones, to_bones) ==
    LET first == Len(bs)
        copied == CopyEach(bs, from_bones, to_bones, 1)
        Reparent(b) ==
            IF copied[b].parent = 0 THEN 0
            ELSE LET i == Index(from_bones, copied[copied[b].parent].name)
                 IN  IF i = 0 THEN 0 ELSE first + i
    IN  [b \in Ids(copied) |->
           IF b > first THEN [copied[b] EXCEPT !.parent = Reparent(b)]
           ELSE copied[b]]

\* instance.copy(to_fmt="%s", base_names=base): the new edit bones
InstanceCopyBones(inst, attrs, base, bs) ==
    CopyBoneSimpleList(bs,
        [i \in 1..Len(attrs) |-> inst.n[attrs[i]]],
        [i \in 1..Len(attrs) |-> base[inst.n[attrs[i]]]])

\* instance.copy(...): the new instance over those bones
InstanceCopy(inst, attrs, first, copied) ==
    [n |-> [a \in Range(attrs) |-> copied[first + Index(attrs, a)].name],
     e |-> [a \in Range(attrs) |-> first + Index(attrs, a)],
     p |-> [a \in Range(attrs) |-> 0]]

\* A constraint on a pose bone.
Constraint(owner, type, subtarget, pole_subtarget, chain_length) ==
    [owner |-> owner, type |-> type, target |-> "obj",
     subtarget |-> subtarget,
     pole_target |-> IF pole_subtarget = None THEN "" ELSE "obj",
     pole_subtarget |-> pole_subtarget, chain_length |-> chain_length]

\* The base_names the rig generator may pass for a validated chain.
BaseNameMaps(bs, definition) ==
    { [n \in Names(bs) |-> n],
      [n \in Names(bs) |-> IF n = definition[4] THEN <<"leg">> ELSE n],
      [n \in Names(bs) |-> <<"leg">>] }

----------------------------------------------------------------------------
(* State machine *)

NoInstance == NewInstance(<<>>)

Init ==
    /\ bones = <<>>
    /\ edit_bones = <<>>
    /\ mode = "OBJECT"
    /\ pc = "start"
    /\ source = "none"
    /\ pbone_type = None
    /\ raised = "none"
    /\ bone_definition = None
    /\ base_names = <<>>
    /\ mt = NoInstance
    /\ mt_chain = NoInstance
    /\ ik_chain = NoInstance
    /\ ik = NoInstance
    /\ constraints = <<>>
    /\ bones_ik = None
    /\ trace = <<>>
    /\ entry = [mode |-> "none", count |-> 0, copy_foot |-> None, taken |-> {}]

rigVars == <<base_names, mt, mt_chain, ik_chain, ik, constraints, bones_ik,
             trace, entry>>

\* metarig_template, lines 32-34
TemplateBegin ==
    /\ pc = "start"
    /\ bones' = ModeSetBones("EDIT")
    /\ edit_bones' = ModeSetEditBones("EDIT")
    /\ mode' = "EDIT"
    /\ source' = "template"
    /\ pc' = "template"
    /\ UNCHANGED <<pbone_type, raised, bone_definition, rigVars>>

\* metarig_template, lines 35-63: the next bone of the template
TemplateBone ==
    /\ pc = "template"
    /\ Len(edit_bones) < Len(TemplateBones)
    /\ edit_bones' = TemplateAddBone(edit_bones, TemplateBones[Len(edit_bones) + 1])
    /\ UNCHANGED <<bones, mode, pc, source, pbone_type, raised,
                   bone_definition, rigVars>>

\* metarig_template, lines 65-67
TemplateEnd ==
    /\ pc = "template"
    /\ Len(edit_bones) = Len(TemplateBones)
    /\ bones' = ModeSetBones("OBJECT")
    /\ edit_bones' = ModeSetEditBones("OBJECT")
    /\ mode' = "OBJECT"
    /\ pbone_type' = bones'[Lookup(bones', TemplateType)].name
    /\ pc' = "ready"
    /\ UNCHANGED <<source, raised, bone_definition, rigVars>>

\* A metarig authored by the user: any forest of MaxBones bones (numbered
\* so that a parent precedes its children), one of them typed as this leg.
UserMetarig ==
    /\ pc = "start"
    /\ \E parent \in [1..MaxBones -> 0..(MaxBones - 1)] :
         /\ \A i \in 1..MaxBones : parent[i] < i
         /\ bones' = [i \in 1..MaxBones |->
                        [name |-> UserNames[i], parent |-> parent[i],
                         connected |-> FALSE]]
    /\ \E t \in 1..MaxBones : pbone_type' = UserNames[t]
    /\ source' = "user"
    /\ pc' = "ready"
    /\ UNCHANGED <<edit_bones, mode, raised, bone_definition, rigVars>>

\* metarig_definition(obj, orig_bone_name) on the typed bone
MetarigDefinition ==
    /\ pc = "ready"
    /\ LET r == metarig_definition(bones, pbone_type) IN
         /\ raised' = r.raised
         /\ bone_definition' = r.value
         /\ pc' = IF r.raised = "none" THEN "defined" ELSE "error"
    /\ UNCHANGED <<bones, edit_bones, mode, source, pbone_type, rigVars>>

\* The rig generator enters EDIT mode and calls main(obj, bone_definition,
\* base_names, options) with the definition that metarig_definition returned.
Generate ==
    /\ pc = "defined"
    /\ \E base \in BaseNameMaps(bones, bone_definition) : base_names' = base
    /\ bones' = ModeSetBones("EDIT")
    /\ edit_bones' = ModeSetEditBones("EDIT")
    /\ mode' = "EDIT"
    /\ pc' = "main"
    /\ UNCHANGED <<source, pbone_type, raised, bone_definition, mt, mt_chain,
                   ik_chain, ik, constraints, bones_ik, trace, entry>>

metarigVars == <<source, pbone_type, raised, bone_definition, base_names>>

\* An edit-time step of ik: new edit bones, new instances, API calls made.
EditStep(at, to, ebs, calls) ==
    /\ pc = at
    /\ pc' = to
    /\ edit_bones' = ebs
    /\ trace' = trace \o calls
    /\ UNCHANGED <<bones, mode, constraints, bones_ik, metarigVars>>

\* main, line 224, and ik, lines 108-115
IkSetup ==
    /\ EditStep("main", "copy", edit_bones, <<>>)
    /\ mt' = AttrInitialize(NewInstance(<<"hips">>), METARIG_NAMES,
                            bone_definition, edit_bones, bones)
    /\ mt_chain' = AttrInitialize(NewInstance(ChainAttrs), METARIG_NAMES,
                                  bone_definition, edit_bones, bones)
    /\ entry' = [entry EXCEPT !.mode = mode, !.count = Len(edit_bones)]
    /\ UNCHANGED <<ik_chain, ik>>

\* ik, line 117
IkCopy ==
    LET copied == InstanceCopyBones(mt_chain, ChainAttrs, base_names, edit_bones)
    IN  /\ EditStep("copy", "thigh", copied, <<"new", "new", "new", "new", "parent">>)
        /\ ik_chain' = InstanceCopy(mt_chain, ChainAttrs, Len(edit_bones), copied)
        /\ UNCHANGED <<mt, mt_chain, ik, entry>>

\* Mutant: the IK thigh is disconnected but not parented to the hips.
IkThighUnparented ==
    /\ EditStep("thigh", "foot",
                [edit_bones EXCEPT ![ik_chain.e.thigh].connected = FALSE],
                <<"connected">>)
    /\ UNCHANGED <<mt, mt_chain, ik_chain, ik, entry>>

\* ik, lines 119-120
IkThigh ==
    /\ EditStep("thigh", "foot",
                [edit_bones EXCEPT ![ik_chain.e.thigh].connected = FALSE,
                                   ![ik_chain.e.thigh].parent = mt.e.hips],
                <<"connected", "parent">>)
    /\ UNCHANGED <<mt, mt_chain, ik_chain, ik, entry>>

\* Mutant: the IK foot is made a root but keeps the name of the copy.
IkFootNotRenamed ==
    /\ EditStep("foot", "toe",
                [edit_bones EXCEPT ![ik_chain.e.foot].parent = 0],
                <<"parent">>)
    /\ entry' = [entry EXCEPT
                   !.copy_foot = ik_chain.n.foot,
                   !.taken = {edit_bones[b].name :
                                 b \in Ids(edit_bones) \ {ik_chain.e.foot}}]
    /\ UNCHANGED <<mt, mt_chain, ik_chain, ik>>

\* ik, lines 122-123
IkFoot ==
    LET foot_e == ik_chain.e.foot
        renamed == SetName([edit_bones EXCEPT ![foot_e].parent = 0], foot_e,
                           Append(ik_chain.n.foot, "_ik"))
    IN  /\ EditStep("foot", "toe", renamed, <<"parent", "name">>)
        /\ ik_chain' = [ik_chain EXCEPT !.n.foot = renamed[foot_e].name]
        /\ entry' = [entry EXCEPT
                       !.copy_foot = ik_chain.n.foot,
                       !.taken = {edit_bones[b].name :
                                     b \in Ids(edit_bones) \ {foot_e}}]
        /\ UNCHANGED <<mt, mt_chain, ik>>

\* ik, lines 126-129
IkToe ==
    /\ EditStep("toe", "knee_target",
                [edit_bones EXCEPT ![ik_chain.e.toe].connected = FALSE],
                <<"connected", "geometry">>)
    /\ UNCHANGED <<mt, mt_chain, ik_chain, ik, entry>>

\* ik, lines 132-136
IkKneeTarget ==
    LET made == EditBonesNew(edit_bones, <<"knee_target">>)
        named == Update([NewInstance(IkAttrs) EXCEPT
                           !.n.knee_target = made[Len(made)].name],
                        made, bones)
    IN  /\ EditStep("knee_target", "foot_roll",
                    [made EXCEPT ![named.e.knee_target].parent = mt.e.hips],
                    <<"new", "geometry", "parent">>)
        /\ ik' = named
        /\ UNCHANGED <<mt, mt_chain, ik_chain, entry>>

\* ik, lines 141-147
IkFootRoll ==
    LET made == CopyBoneSimple(edit_bones, mt_chain.n.toe,
                               Append(base_names[mt_chain.n.foot], "_roll"),
                               FALSE)
        b == Len(made)
    IN  /\ EditStep("foot_roll", "foot_roll_01",
                    [made EXCEPT ![b].parent = ik_chain.e.foot],
                    <<"new", "parent", "geometry">>)
        /\ ik' = [ik EXCEPT !.e.foot_roll = b, !.n.foot_roll = made[b].name]
        /\ UNCHANGED <<mt, mt_chain, ik_chain, entry>>

\* ik, lines 150-154
IkFootRoll01 ==
    LET made == CopyBoneSimple(edit_bones, mt_chain.n.foot,
                               <<"MCH-">> \o base_names[mt_chain.n.foot],
                               FALSE)
        b == Len(made)
    IN  /\ EditStep("foot_roll_01", "foot_target",
                    [made EXCEPT ![b].parent = ik_chain.e.foot],
                    <<"new", "parent", "geometry">>)
        /\ ik' = [ik EXCEPT !.e.foot_roll_01 = b,
                            !.n.foot_roll_01 = made[b].name]
        /\ UNCHANGED <<mt, mt_chain, ik_chain, entry>>

\* ik, lines 157-162
IkFootTarget ==
    LET made == CopyBoneSimple(edit_bones, mt_chain.n.foot,
                               Append(base_names[mt_chain.n.foot], "_ik_target"),
                               FALSE)
        b == Len(made)
    IN  /\ EditStep("foot_target", "foot_roll_02",
                    [made EXCEPT ![b].parent = ik.e.foot_roll_01,
                                 ![b].connected = TRUE],
                    <<"new", "parent", "geometry", "connected">>)
        /\ ik' = [ik EXCEPT !.e.foot_target = b,
                            !.n.foot_target = made[b].name]
        /\ UNCHANGED <<mt, mt_chain, ik_chain, entry>>

\* ik, lines 165-167
IkFootRoll02 ==
    LET made == CopyBoneSimple(edit_bones, mt_chain.n.foot,
                               (<<"MCH-">> \o base_names[mt_chain.n.foot])
                                   \o <<"_02">>,
                               FALSE)
        b == Len(made)
    IN  /\ EditStep("foot_roll_02", "mode_object",
                    [made EXCEPT ![b].parent = ik.e.foot_roll_01],
                    <<"new", "parent">>)
        /\ ik' = [ik EXCEPT !.e.foot_roll_02 = b,
                            !.n.foot_roll_02 = made[b].name]
        /\ UNCHANGED <<mt, mt_chain, ik_chain, entry>>

\* bpy.ops.object.mode_set(mode=m) inside ik
IkModeSet(at, to, m) ==
    /\ pc = at
    /\ pc' = to
    /\ bones' = ModeSetBones(m)
    /\ edit_bones' = ModeSetEditBones(m)
    /\ mode' = m
    /\ trace' = Append(trace, m)
    /\ UNCHANGED <<constraints, bones_ik, entry, metarigVars>>

\* Mutant: the switch to OBJECT mode is missing before the update calls.
IkModeObjectSkipped ==
    /\ pc = "mode_object"
    /\ pc' = "constrain"
    /\ mt' = Update(mt, edit_bones, bones)
    /\ mt_chain' = Update(mt_chain, edit_bones, bones)
    /\ ik' = Update(ik, edit_bones, bones)
    /\ ik_chain' = Update(ik_chain, edit_bones, bones)
    /\ UNCHANGED <<bones, edit_bones, mode, trace, constraints, bones_ik,
                   entry, metarigVars>>

\* ik, lines 170-175
IkModeObject ==
    /\ IkModeSet("mode_object", "constrain", "OBJECT")
    /\ mt' = Update(mt, edit_bones', bones')
    /\ mt_chain' = Update(mt_chain, edit_bones', bones')
    /\ ik' = Update(ik, edit_bones', bones')
    /\ ik_chain' = Update(ik_chain, edit_bones', bones')

\* A pose-time step of ik: constraints.new(..) on the pose bones `owners`;
\* a slot without a pose bone is None and the call raises AttributeError.
PoseStep(at, to, new) ==
    /\ pc = at
    /\ IF \A i \in 1..Len(new) : new[i].owner # 0
       THEN /\ pc' = to
            /\ constraints' = constraints \o new
            /\ trace' = trace \o [i \in 1..Len(new) |-> "constraint"]
       ELSE /\ pc' = "AttributeError"
            /\ UNCHANGED <<constraints, trace>>
    /\ UNCHANGED <<bones, edit_bones, mode, bones_ik, entry, metarigVars,
                   mt, mt_chain, ik_chain, ik>>

\* Mutant: the original foot copies the rotation of the IK foot.
IkConstrainChainToIkFoot ==
    PoseStep("constrain", "constrain_roll",
        << Constraint(mt_chain.p.thigh, "COPY_ROTATION", ik_chain.n.thigh, None, 0),
           Constraint(mt_chain.p.shin, "COPY_ROTATION", ik_chain.n.shin, None, 0),
           Constraint(mt_chain.p.foot, "COPY_ROTATION", ik_chain.n.foot, None, 0),
           Constraint(mt_chain.p.toe, "COPY_ROTATION", ik_chain.n.toe, None, 0) >>)

\* ik, lines 178-192
IkConstrainChain ==
    PoseStep("constrain", "constrain_roll",
        << Constraint(mt_chain.p.thigh, "COPY_ROTATION", ik_chain.n.thigh, None, 0),
           Constraint(mt_chain.p.shin, "COPY_ROTATION", ik_chain.n.shin, None, 0),
           Constraint(mt_chain.p.foot, "COPY_ROTATION", ik.n.foot_roll_02, None, 0),
           Constraint(mt_chain.p.toe, "COPY_ROTATION", ik_chain.n.toe, None, 0) >>)

\* ik, lines 195-197
IkConstrainRoll ==
    PoseStep("constrain_roll", "constrain_ik",
        << Constraint(ik.p.foot_roll_01, "COPY_ROTATION", ik.n.foot_roll, None, 0) >>)

\* Mutant: the IK constraint is created on the IK foot, not the IK shin.
IkConstrainIKOnFoot ==
    PoseStep("constrain_ik", "mode_edit",
        << Constraint(ik_chain.p.foot, "IK", ik.n.foot_target,
                      ik.n.knee_target, 2) >>)

\* ik, lines 201-215
IkConstrainIK ==
    PoseStep("constrain_ik", "mode_edit",
        << Constraint(ik_chain.p.shin, "IK", ik.n.foot_target,
                      ik.n.knee_target, 2) >>)

\* ik, line 218
IkModeEdit ==
    /\ IkModeSet("mode_edit", "return", "EDIT")
    /\ UNCHANGED <<mt, mt_chain, ik_chain, ik>>

\* ik, line 220, and main, lines 224-225
IkReturn ==
    /\ pc = "return"
    /\ pc' = "done"
    /\ bones_ik' = <<None, ik_chain.n.thigh, ik_chain.n.shin, ik_chain.n.foot,
                     ik_chain.n.toe>>
    /\ UNCHANGED <<bones, edit_bones, mode, constraints, trace, entry,
                   metarigVars, mt, mt_chain, ik_chain, ik>>

Next ==
    \/ TemplateBegin
    \/ TemplateBone
    \/ TemplateEnd
    \/ UserMetarig
    \/ MetarigDefinition
    \/ Generate
    \/ IkSetup
    \/ IkCopy
    \/ IkThigh
    \/ IkFoot
    \/ IkToe
    \/ IkKneeTarget
    \/ IkFootRoll
    \/ IkFootRoll01
    \/ IkFootTarget
    \/ IkFootRoll02
    \/ IkModeObject
    \/ IkConstrainChain
    \/ IkConstrainRoll
    \/ IkConstrainIK
    \/ IkModeEdit
    \/ IkReturn

Spec == Init /\ [][Next]_vars

----------------------------------------------------------------------------
(* Vocabulary of the properties *)

\* metarig_definition has just run on the typed bone
Validated == pc \in {"defined", "error"}

OrigBone == Lookup(bones, pbone_type)

NumChildren(b) == Cardinality(Children(bones, b))

\* the only child of b (0 when b has none or several)
OnlyChild(b) ==
    IF NumChildren(b) = 1 THEN CHOOSE c \in Children(bones, b) : TRUE ELSE 0

Shin == OnlyChild(OrigBone)

Foot == IF Shin = 0 THEN 0 ELSE OnlyChild(Shin)

Toe == IF Foot = 0 THEN 0 ELSE OnlyChild(Foot)

\* the k-th bone that ik created: the copies of thigh, shin, foot and toe,
\* then knee_target, foot_roll, MCH-foot, ik_target and MCH-foot_02
Created(k) == entry.count + k

IkThighBone == Created(1)
IkShinBone == Created(2)
IkFootBone == Created(3)
IkToeBone == Created(4)
KneeTargetBone == Created(5)
FootRollBone == Created(6)
MchFootBone == Created(7)
IkTargetBone == Created(8)
MchFoot02Bone == Created(9)

\* the original bone behind the i-th entry of bone_definition
Orig(i) == Lookup(edit_bones, bone_definition[i])

RECURSIVE Ancestors(_, _, _)
\* the bones reached from b by following parents at most `fuel` times
Ancestors(bs, b, fuel) ==
    IF fuel = 0 \/ bs[b].parent = 0 THEN {}
    ELSE {bs[b].parent} \cup Ancestors(bs, bs[b].parent, fuel - 1)

RECURSIVE ReachesRoot(_, _, _)
ReachesRoot(bs, b, fuel) ==
    \/ bs[b].parent = 0
    \/ fuel > 0 /\ ReachesRoot(bs, bs[b].parent, fuel - 1)

Select(s, type) == SelectSeq(s, LAMBDA c : c.type = type)

PositionsOf(calls) == {i \in 1..Len(trace) : trace[i] \in calls}

EditCalls == {"new", "name", "parent", "connected", "geometry"}

----------------------------------------------------------------------------
(* Properties *)

\* C1: metarig_definition raises RigifyError and returns no bone list
\* whenever the given bone has no parent, whatever children it has.
C1_NoParentRaises ==
    (Validated /\ bones[OrigBone].parent = 0)
        => (raised = "RigifyError" /\ bone_definition = None /\ pc = "error")

\* C1 witness: a parentless bone with a complete chain of three below it
\* was rejected.
C1_Witness ==
    /\ pc = "error"
    /\ bones[OrigBone].parent = 0
    /\ Toe # 0

C3_FootForkAccepted ==
    (/\ Validated
     /\ bones[OrigBone].parent # 0
     /\ Foot # 0
     /\ NumChildren(Foot) = 2)
        => (raised = "none" /\ Len(bone_definition) = Len(METARIG_NAMES))

\* C4: a returned definition has one name per entry of METARIG_NAMES, in
\* that order: the parent of the given bone, the given bone, its only
\* child, that child's only child and that grandchild's only child; each
\* consecutive pair is parent and child, and the five names are distinct.
C4_DefinitionShape ==
    (Validated /\ raised = "none")
        => /\ Len(bone_definition) = Len(METARIG_NAMES)
           /\ bone_definition[2] = pbone_type
           /\ bone_definition[1] = bones[bones[OrigBone].parent].name
           /\ Toe # 0
           /\ bone_definition[3] = bones[Shin].name
           /\ bone_definition[4] = bones[Foot].name
           /\ bone_definition[5] = bones[Toe].name
           /\ \A i \in 1..4 :
                bones[Lookup(bones, bone_definition[i + 1])].parent
                    = Lookup(bones, bone_definition[i])
           /\ \A i, j \in 1..5 :
                i # j => bone_definition[i] # bone_definition[j]

\* C4 witness: a user-authored metarig was accepted.
C4_Witness == pc = "defined" /\ source = "user"

\* C5 as claimed: main returns ik's 5-tuple: None, then the names of the new
\* copies of thigh, shin, foot and toe, the foot entry being the copy's
\* name followed by "_ik"; none of the four is a name of bone_definition.
C5_ReturnedNamesExact ==
    pc = "done"
        => /\ Len(bones_ik) = Len(METARIG_NAMES)
           /\ bones_ik[1] = None
           /\ \A k \in 1..4 : Lookup(edit_bones, bones_ik[k + 1]) = Created(k)
           /\ bones_ik[4] = Append(entry.copy_foot, "_ik")
           /\ \A k \in 2..5 : bones_ik[k] \notin Range(bone_definition)

\* C5 amended: as above, but the foot entry is the copy's name followed by
\* "_ik" only when no other bone has that name; otherwise it is that name
\* followed by the host's numeric suffix.
C5_ReturnedNames ==
    pc = "done"
        => /\ Len(bones_ik) = Len(METARIG_NAMES)
           /\ bones_ik[1] = None
           /\ \A k \in 1..4 : Lookup(edit_bones, bones_ik[k + 1]) = Created(k)
           /\ IF Append(entry.copy_foot, "_ik") \in entry.taken
              THEN \E k \in 1..Len(NumTok) :
                     bones_ik[4] = Append(Append(entry.copy_foot, "_ik"), NumTok[k])
              ELSE bones_ik[4] = Append(entry.copy_foot, "_ik")
           /\ \A k \in 2..5 : bones_ik[k] \notin Range(bone_definition)

\* C5 witness: main returned where the copies' base names are the
\* original names, so that every copy had to be given a fresh name.
C5_Witness ==
    /\ pc = "done"
    /\ \A i \in 2..5 : base_names[bone_definition[i]] = bone_definition[i]
    /\ bones_ik[4] = Append(entry.copy_foot, "_ik")

\* C6: after ik, IK thigh and knee_target are children of the original
\* hips, IK shin of IK thigh; the IK foot is a root; IK toe, foot_roll and
\* MCH-foot are children of the IK foot; ik_target and MCH-foot_02 are
\* children of MCH-foot. No created bone is parented to an original thigh,
\* shin, foot or toe, and every created bone reaches a root.
C6_Topology ==
    pc = "done"
        => /\ Len(edit_bones) = Created(9)
           /\ edit_bones[IkThighBone].parent = Orig(1)
           /\ edit_bones[KneeTargetBone].parent = Orig(1)
           /\ edit_bones[IkShinBone].parent = IkThighBone
           /\ edit_bones[IkFootBone].parent = 0
           /\ edit_bones[IkToeBone].parent = IkFootBone
           /\ edit_bones[FootRollBone].parent = IkFootBone
           /\ edit_bones[MchFootBone].parent = IkFootBone
           /\ edit_bones[IkTargetBone].parent = MchFootBone
           /\ edit_bones[MchFoot02Bone].parent = MchFootBone
           /\ edit_bones[KneeTargetBone].name = ik.n.knee_target
           /\ edit_bones[FootRollBone].name = ik.n.foot_roll
           /\ edit_bones[MchFootBone].name = ik.n.foot_roll_01
           /\ edit_bones[IkTargetBone].name = ik.n.foot_target
           /\ edit_bones[MchFoot02Bone].name = ik.n.foot_roll_02
           /\ \A k \in 1..9 :
                /\ edit_bones[Created(k)].parent \notin {Orig(i) : i \in 2..5}
                /\ ReachesRoot(edit_bones, Created(k), Len(edit_bones))

\* C6 witness: ik completed on a leg whose hips bone has a parent itself.
C6_Witness ==
    /\ pc = "done"
    /\ edit_bones[Orig(1)].parent # 0

\* C7: ik creates exactly five COPY_ROTATION constraints with target obj:
\* thigh copies IK thigh, shin copies IK shin, foot copies MCH-foot_02 (not
\* the IK foot), toe copies IK toe, MCH-foot copies foot_roll. Each original
\* chain bone gets exactly one constraint, and no constraint's subtarget is
\* its owner.
C7_CopyRotation ==
    pc = "done"
        => LET rot == Select(constraints, "COPY_ROTATION")
               Wired(owner, sub) ==
                   \E i \in 1..Len(rot) :
                       /\ rot[i].owner = owner
                       /\ Lookup(edit_bones, rot[i].subtarget) = sub
           IN  /\ Len(rot) = 5
               /\ \A i \in 1..5 : rot[i].target = "obj"
               /\ Wired(Orig(2), IkThighBone)
               /\ Wired(Orig(3), IkShinBone)
               /\ Wired(Orig(4), MchFoot02Bone)
               /\ ~Wired(Orig(4), IkFootBone)
               /\ Wired(Orig(5), IkToeBone)
               /\ Wired(MchFootBone, FootRollBone)
               /\ \A b \in 2..5 :
                    Cardinality({i \in 1..Len(constraints) :
                                    constraints[i].owner = Orig(b)}) = 1
               /\ \A i \in 1..Len(constraints) :
                    edit_bones[constraints[i].owner].name
                        # constraints[i].subtarget

\* C7 witness: ik completed with all copies named after one base name.
C7_Witness ==
    /\ pc = "done"
    /\ Len(Select(constraints, "COPY_ROTATION")) = 5
    /\ \A i \in 2..5 : base_names[bone_definition[i]] = <<"leg">>

\* C8: ik creates exactly one IK constraint, on the IK shin, of chain
\* length 2 (IK shin and its parent IK thigh, never the hips), with the
\* ik_target as target and knee_target as pole; neither of the two is in
\* the solved chain or below it.
C8_IkConstraint ==
    pc = "done"
        => LET solve == Select(constraints, "IK")
               chain == {IkShinBone, edit_bones[IkShinBone].parent}
               Outside(b) ==
                   /\ b \notin chain
                   /\ Ancestors(edit_bones, b, Len(edit_bones)) \cap chain = {}
           IN  /\ Len(solve) = 1
               /\ solve[1].owner = IkShinBone
               /\ solve[1].chain_length = 2
               /\ chain = {IkShinBone, IkThighBone}
               /\ Orig(1) \notin chain
               /\ solve[1].target = "obj"
               /\ solve[1].pole_target = "obj"
               /\ Lookup(edit_bones, solve[1].subtarget) = IkTargetBone
               /\ Lookup(edit_bones, solve[1].pole_subtarget) = KneeTargetBone
               /\ Outside(IkTargetBone)
               /\ Outside(KneeTargetBone)

\* C8 witness: ik completed and the IK constraint names two distinct bones.
C8_Witness ==
    /\ pc = "done"
    /\ Len(Select(constraints, "IK")) = 1
    /\ constraints[Len(constraints)].subtarget
           # constraints[Len(constraints)].pole_subtarget

\* C9: entered in EDIT mode, ik switches mode exactly twice, to OBJECT and
\* back to EDIT; every edit-bone call precedes the switch to OBJECT, every
\* constraint is created between the two switches, and ik returns in the
\* mode it was entered in.
C9_ModeSequence ==
    /\ (pc \in {"copy", "thigh", "foot", "toe", "knee_target", "foot_roll",
                "foot_roll_01", "foot_target", "foot_roll_02", "mode_object"}
           /\ entry.mode = "EDIT") => mode = "EDIT"
    /\ (pc \in {"constrain", "constrain_roll", "constrain_ik", "mode_edit"}
           /\ entry.mode = "EDIT") => mode = "OBJECT"
    /\ (pc = "done" /\ entry.mode = "EDIT")
           => /\ mode = entry.mode
              /\ SelectSeq(trace, LAMBDA c : c \in {"OBJECT", "EDIT"})
                     = <<"OBJECT", "EDIT">>
              /\ \A i \in PositionsOf(EditCalls), j \in PositionsOf({"OBJECT"}) :
                     i < j
              /\ \A i \in PositionsOf({"constraint"}) :
                     /\ \A j \in PositionsOf({"OBJECT"}) : j < i
                     /\ \A j \in PositionsOf({"EDIT"}) : i < j
              /\ Cardinality(PositionsOf({"constraint"})) = Len(constraints)
              /\ Cardinality(PositionsOf({"new"})) = 9

\* C9 witness: ik returned after making edit calls and constraints.
C9_Witness ==
    /\ pc = "done"
    /\ entry.mode = "EDIT"
    /\ PositionsOf(EditCalls) # {}
    /\ PositionsOf({"constraint"}) # {}

\* C10: the armature built by metarig_template passes this module's own
\* validation: the typed bone is 'thigh' and metarig_definition returns
\* ['body', 'thigh', 'shin', 'foot', 'toe'] without raising.
C10_TemplateAccepted ==
    /\ (source = "template" /\ pc = "ready") => pbone_type = <<"thigh">>
    /\ (source = "template" /\ Validated)
           => /\ raised = "none"
              /\ pc = "defined"
              /\ bone_definition = << <<"body">>, <<"thigh">>, <<"shin">>,
                                      <<"foot">>, <<"toe">> >>
              /\ bones[OrigBone].parent = Lookup(bones, <<"body">>)
              /\ \A b \in {OrigBone, Shin, Foot} : NumChildren(b) = 1

\* C10 witness: metarig_definition ran on the template's armature.
C10_Witness == source = "template" /\ Validated

====
